---- MODULE Spec2Model ----
(***************************************************************************)
(* Water-management alert pipeline: OrchestratorAgent.process_overflow_-   *)
(* scenario and the agents it drives (src/water_management_agents.py).     *)
(*                                                                         *)
(* Water levels are held in tenths of a percent (92.5% is 925) so that the *)
(* float comparisons of the classifier stay exact over the integers.       *)
(* A reply of the reasoning backend is a sequence of tokens (prose, the    *)
(* "```json" fence, the "```" fence, one JSON value); extraction and       *)
(* json.loads are computed on that sequence as the code computes them on   *)
(* the text.                                                               *)
(***************************************************************************)
EXTENDS Integers, Sequences, FiniteSets, TLC

VARIABLES
    pc,             \* per run: the next step of process_overflow_scenario
    sensor_data,    \* per run: the WaterSensorData handed to the run
    sensor_analysis,\* per run: result of analyze_sensor_data
    weather_data,   \* per run: result of get_weather_forecast
    prediction,     \* per run: result of predict_overflow
    pred_reply,     \* per run: the backend's outcome for the prediction request
    plan_reply,     \* per run: the backend's outcome for the planning request
    actions,        \* per run: list returned by calculate_redirection
    idx,            \* per run: position of the "for action in actions" loop
    command,        \* the command dict built inside control_valve, per slot
    result,         \* per run: the dict returned by the run
    trace,          \* per run: history of the stages entered, in order
    backend_calls,  \* per run: number of chat-completion requests made
    valve_log,      \* every valve command issued, in order of emission
    notifications,  \* every alert handed to send_notifications, in order
    database,       \* every record handed to update_database, in order
    faults,         \* every collaborator call that raised: run, call, loop position
    vision_reply,   \* per run: the backend's outcome for the vision request
    vision_analysis,\* per run: result of process_camera_feed
    db_tables,      \* MCP server: the rows of water_management.db, per table
    db_before,      \* MCP server: the rows as they were before the latest call
    mcp_reply       \* MCP server: the latest call and how it ended

vars == << pc, sensor_data, sensor_analysis, weather_data, prediction,
           pred_reply, plan_reply, actions, idx, command, result, trace, backend_calls,
           valve_log, notifications, database, faults, vision_reply,
           vision_analysis, db_tables, db_before, mcp_reply >>

\* the state of the camera path of analyze_sensor_data
vision_vars == << vision_reply, vision_analysis >>

\* the state of the MCP server (src/mcp_server.py)
server_vars == << db_tables, db_before, mcp_reply >>

Runs == {"run1", "run2"}

\* ------------------------------------------------------------------ bounds

\* longest JSON array of actions a planning reply carries
MaxActions == 2

\* longest array of actions in the two-run specification
ConcMaxActions == 2

\* most rows a table of the MCP server's database grows to
MaxRows == 2

\* --------------------------------------------------------------- data model

\* a percentage as the model's tenths of a percent
Pct(p) == p * 10

alert_threshold == 85
critical_threshold == 95
emergency_threshold == 100
default_priority == 5
default_percentage == 100

NORMAL == "normal"
WARNING == "warning"
CRITICAL == "critical"
EMERGENCY == "emergency"

Reading(level, flow) == [water_level |-> level, flow_rate |-> flow]

NoReading == Reading(0 - 1, 0 - 1)

\* readings offered to a run: the tiers, their boundaries, main()'s own, and
\* water levels outside the 0-100 range of the dataclass
Readings ==
    { Reading(300, 0), Reading(849, 100), Reading(850, 100),
      Reading(851, 100), Reading(925, 450), Reading(950, 500),
      Reading(951, 500), Reading(1000, 600),
      Reading(1050, 600), Reading(0 - 50, 0) }

ConcReadings == { Reading(300, 0), Reading(925, 450) }

\* ------------------------------------------------------------ the classifier

AlertLevelOfStrictEmergency(water_level) ==
    IF water_level > Pct(emergency_threshold) THEN EMERGENCY
    ELSE IF water_level > Pct(critical_threshold) THEN CRITICAL
    ELSE IF water_level > Pct(alert_threshold) THEN WARNING
    ELSE NORMAL

\* the three successive "if"s of analyze_sensor_data: the last that holds wins
AlertLevelOf(water_level) ==
    IF water_level >= Pct(emergency_threshold) THEN EMERGENCY
    ELSE IF water_level > Pct(critical_threshold) THEN CRITICAL
    ELSE IF water_level > Pct(alert_threshold) THEN WARNING
    ELSE NORMAL

RequiresActionAlways(alert_level) == TRUE

RequiresAction(alert_level) == alert_level # NORMAL

Analysis(sd) ==
    [ alert_level     |-> AlertLevelOf(sd.water_level),
      water_level     |-> sd.water_level,
      flow_rate       |-> sd.flow_rate,
      requires_action |-> RequiresAction(AlertLevelOf(sd.water_level)) ]

NoAnalysis ==
    [ alert_level |-> "unset", water_level |-> 0 - 1, flow_rate |-> 0 - 1,
      requires_action |-> FALSE ]

\* ------------------------------------------------------- destinations

Destination(id, type, cap) == [id |-> id, type |-> type, capacity_remaining |-> cap]

\* the inventory process_overflow_scenario passes to the planner, in the
\* order of the source, which is also the order of the category ranking
available_destinations ==
    << Destination("tank_drinking_1", "drinking_water", 5000),
       Destination("reservoir_agri_2", "agriculture", 15000),
       Destination("recharge_pit_3", "groundwater", 8000) >>

DestinationIds == { available_destinations[k].id : k \in DOMAIN available_destinations }

\* ------------------------------------------------------- JSON values

ActionKeys == {"valve_id", "action", "percentage", "destination", "priority", "reason"}

RequiredActionKeys == ActionKeys \ {"priority"}

\* one element of a JSON array: an object with the keys in `has`, or a number
Entry(has, valve_id, action, percentage, destination, priority, reason) ==
    [ t |-> "dict", has |-> has, valve_id |-> valve_id, action |-> action,
      percentage |-> percentage, destination |-> destination,
      priority |-> priority, reason |-> reason ]

NumberEntry ==
    [ t |-> "num", has |-> {}, valve_id |-> "", action |-> "",
      percentage |-> 0, destination |-> "", priority |-> 0, reason |-> "" ]

\* a JSON value: its type, the keys it has when it is an object, and the
\* array it is (type "list") or holds under "actions" (type "dict")
Json(t, keys, items) == [t |-> t, keys |-> keys, items |-> items]

JsonNull == Json("null", {}, << >>)

\* a dictionary reply to the prediction request with the keys in `keys`
PredictionJson(keys) == Json("dict", keys, << >>)

ProbabilityKeys ==
    {"overflow_probability_6h", "overflow_probability_12h", "overflow_probability_24h"}

PredictionKeys ==
    ProbabilityKeys \cup {"peak_time", "excess_volume_liters", "recommendations", "risk_level"}

\* ------------------------------------------------------- backend replies

Token(tok, val) == [tok |-> tok, val |-> val]

Prose == Token("text", JsonNull)
FenceJson == Token("fence_json", JsonNull)
Fence == Token("fence", JsonNull)
Payload(j) == Token("json", j)

\* the shapes in which a reply carries (or fails to carry) a JSON value
Bare(j) == << Payload(j) >>
Fenced(j) == << FenceJson, Payload(j), Fence >>
ProseFenced(j) == << Prose, FenceJson, Payload(j), Fence, Prose >>
ProseThenJson(j) == << Prose, Payload(j) >>
PlainFence(j) == << Fence, Payload(j), Fence >>
PlainText == << Prose >>

\* the outcome of one chat-completion request: an exception, or a reply
Outcome(ok, content) == [asked |-> TRUE, ok |-> ok, content |-> content]

BackendError == Outcome(FALSE, << >>)

Reply(content) == Outcome(TRUE, content)

\* no request made yet
NoOutcome == [asked |-> FALSE, ok |-> FALSE, content |-> << >>]

\* "```json" in content
HasJsonFence(content) == \E k \in DOMAIN content : content[k].tok = "fence_json"

FirstJsonFence(content) ==
    CHOOSE k \in DOMAIN content :
        /\ content[k].tok = "fence_json"
        /\ \A m \in 1..(k - 1) : content[m].tok # "fence_json"

\* content.split("```json")[1].split("```")[0]: what follows the first
\* "```json" up to the next "```" (which "```json" begins with too) or the end
FencedPart(content) ==
    LET f == FirstJsonFence(content)
        closers == { k \in (f + 1)..Len(content) :
                        content[k].tok \in {"fence", "fence_json"} }
        last == IF closers = {} THEN Len(content)
                ELSE (CHOOSE k \in closers : \A m \in closers : k <= m) - 1
    IN  SubSeq(content, f + 1, last)

Extracted(content) ==
    IF HasJsonFence(content) THEN FencedPart(content) ELSE content

\* json.loads: succeeds exactly on one JSON value with nothing else around it
Loads(text) ==
    IF Len(text) = 1 /\ text[1].tok = "json"
    THEN [ok |-> TRUE, val |-> text[1].val]
    ELSE [ok |-> FALSE, val |-> JsonNull]

\* ------------------------------------------------------- prediction stage

PredictionValue(t, keys, raw) == [t |-> t, keys |-> keys, raw |-> raw]

NoPrediction == PredictionValue("unset", {}, << >>)

\* _parse_prediction: whatever json.loads gives, else the error dictionary
\* whose "raw" is `content` as it stands when the parse fails
ParsePrediction(content) ==
    LET text == Extracted(content)
        loaded == Loads(text)
    IN  IF loaded.ok
        THEN PredictionValue(loaded.val.t, loaded.val.keys, << >>)
        ELSE PredictionValue("dict", {"error", "raw"}, text)

\* what the result of _parse_prediction holds under `key`: nothing when it is
\* no dictionary or lacks the key, the two literals of the error dictionary,
\* and otherwise whatever the backend put there
ValueUnder(p, key) ==
    IF p.t # "dict" \/ key \notin p.keys THEN "absent"
    ELSE IF p.keys = {"error", "raw"}
         THEN (IF key = "error" THEN "parsing_failed" ELSE "raw text")
         ELSE "backend value"

\* lines 381-383 of process_overflow_scenario: the "in" test raises on a value
\* that is no container, the two prints raise on a missing 12h key
PredictionReportRaises(p) ==
    \/ p.t \in {"num", "null"}
    \/ /\ p.t = "dict"
       /\ "overflow_probability_6h" \in p.keys
       /\ "overflow_probability_12h" \notin p.keys

\* ------------------------------------------------------- camera feed

\* no image analysed
NoVision == PredictionValue("unset", {}, << >>)

VisionKeys == {"water_level", "overflow_detected", "urgency"}

\* _parse_vision_analysis: whatever json.loads gives, else a dictionary with a
\* water level of 0, no overflow, urgency "normal", and `analysis` as it stands
\* when the parse fails under "raw_analysis"
ParseVisionAnalysis(analysis) ==
    LET text == Extracted(analysis)
        loaded == Loads(text)
    IN  IF loaded.ok
        THEN PredictionValue(loaded.val.t, loaded.val.keys, << >>)
        ELSE PredictionValue("dict", VisionKeys \cup {"raw_analysis"}, text)

\* ------------------------------------------------------- planning stage

RedirectionAction(valve_id, action, percentage, destination, priority, reason) ==
    [ valve_id |-> valve_id, action |-> action, percentage |-> percentage,
      destination |-> destination, priority |-> priority, reason |-> reason ]

\* RedirectionAction(valve_id=a["valve_id"], ..., priority=a.get("priority", 5), ...)
ActionOfEntry(a) ==
    RedirectionAction(a.valve_id, a.action, a.percentage, a.destination,
                      IF "priority" \in a.has THEN a.priority ELSE default_priority,
                      a.reason)

\* building the action raises: subscripting a number, or a missing key
EntryRaises(a) == a.t # "dict" \/ ~(RequiredActionKeys \subseteq a.has)

EntryBuilds(a) == ~EntryRaises(a)

ParseLoadedSkipping(val) ==
    IF val.t = "list" \/ (val.t = "dict" /\ "actions" \in val.keys)
    THEN LET kept == SelectSeq(val.items, EntryBuilds)
         IN  [k \in DOMAIN kept |-> ActionOfEntry(kept[k])]
    ELSE << >>

\* what "for a in actions_data" iterates over raises or yields nothing usable
\* unless actions_data is an array: a number or null is not iterable, a string
\* or a dictionary iterates strings, which a["valve_id"] cannot subscript
ParseLoaded(val) ==
    IF val.t = "list" \/ (val.t = "dict" /\ "actions" \in val.keys)
    THEN IF \E k \in DOMAIN val.items : EntryRaises(val.items[k])
         THEN << >>
         ELSE [k \in DOMAIN val.items |-> ActionOfEntry(val.items[k])]
    ELSE << >>

\* _parse_actions: any exception gives the empty list
ParseActions(content) ==
    LET loaded == Loads(Extracted(content))
    IN  IF loaded.ok THEN ParseLoaded(loaded.val) ELSE << >>

\* ------------------------------------------------------- inputs of the runs

ValidPrediction == PredictionJson(PredictionKeys)

\* replies to the prediction request: well-formed in each wrapping, objects
\* with keys missing, values of another JSON type, and text that is no JSON
PredictionOutcomes ==
    { Reply(c) : c \in
        { Bare(ValidPrediction), Fenced(ValidPrediction), ProseFenced(ValidPrediction),
          ProseThenJson(ValidPrediction), PlainText,
          Bare(PredictionJson(ProbabilityKeys \ {"overflow_probability_12h"})),
          Bare(PredictionJson({"risk_level"})),
          Bare(Json("num", {}, << >>)), Bare(JsonNull),
          Bare(Json("str", {}, << >>)), Bare(Json("list", {}, << >>)) } }
    \cup { BackendError }

ConcPredictionOutcomes == { Reply(Bare(ValidPrediction)), BackendError }

OpenV1 == Entry(ActionKeys, "V1", "open", 100, "tank_drinking_1", 1, "r")
PartialV1 == Entry(ActionKeys, "V1", "partial", 40, "recharge_pit_3", 2, "r")
CloseV2Over == Entry(ActionKeys, "V2", "close", 150, "reservoir_agri_2", 2, "r")
PartialV2Unknown == Entry(ActionKeys, "V2", "partial", 0 - 5, "unknown_dest", 3, "r")
OpenV2NoPriority ==
    Entry(ActionKeys \ {"priority"}, "V2", "open", 100, "reservoir_agri_2", 0, "r")
OpenV1NoReason == Entry(ActionKeys \ {"reason"}, "V1", "open", 100, "tank_drinking_1", 1, "")

PlanEntries ==
    { OpenV1, PartialV1, CloseV2Over, PartialV2Unknown, OpenV2NoPriority,
      OpenV1NoReason, NumberEntry }

ConcPlanEntries == { OpenV1, PartialV1 }

\* the arrays of at most n elements of S
ArraysOf(S, n) == UNION { [1..k -> S] : k \in 0..n }

PlanningJsons ==
    { Json("list", {}, l) : l \in ArraysOf(PlanEntries, MaxActions) }
    \cup { Json("dict", {"actions"}, l) : l \in ArraysOf({OpenV1, CloseV2Over}, 1) }
    \cup { Json("dict", {"error"}, << >>), Json("num", {}, << >>),
           Json("str", {}, << >>), JsonNull }

WrappedPlan == Json("list", {}, << OpenV1 >>)

PlanningOutcomes ==
    { Reply(Bare(j)) : j \in PlanningJsons }
    \cup { Reply(c) : c \in
            { Fenced(WrappedPlan), ProseFenced(WrappedPlan),
              ProseThenJson(WrappedPlan), PlainFence(WrappedPlan), PlainText } }
    \cup { BackendError }

ConcPlanningOutcomes ==
    { Reply(Bare(Json("list", {}, l))) : l \in ArraysOf(ConcPlanEntries, ConcMaxActions) }
    \cup { BackendError }

\* replies to the vision request: the assessment bare and fenced, text that is
\* no JSON bare and inside a fence
VisionOutcomes ==
    { Reply(c) : c \in
        { Bare(Json("dict", VisionKeys, << >>)), Fenced(Json("dict", VisionKeys, << >>)),
          PlainText, << FenceJson, Prose, Fence >> } }
    \cup { BackendError }

\* the readings that come with a camera image
VisionReadings == { Reading(300, 0), Reading(925, 450) }

\* ------------------------------------------------------- the workflow

NoWeather == [fetched |-> FALSE, rainfall_forecast_mm |-> << >>]

\* the simulated forecast of MCPIntegrationAgent.get_weather_forecast
Forecast == [fetched |-> TRUE, rainfall_forecast_mm |-> << 5, 12, 8, 2, 0, 0 >>]

NoCommand == [valve_id |-> "", action |-> "", percentage |-> 0]

CommandFullyOpen(valve_id, action, percentage) ==
    [valve_id |-> valve_id, action |-> action, percentage |-> 100]

\* the command dictionary control_valve builds from its arguments
Command(valve_id, action, percentage) ==
    [valve_id |-> valve_id, action |-> action, percentage |-> percentage]

CmdSlotShared(r) == "run1"

\* `command` is a local of the control_valve call: one per run
CmdSlot(r) == r

NoResult ==
    [ returned |-> FALSE, sensor_analysis |-> NoAnalysis,
      prediction |-> NoPrediction, actions_taken |-> << >> ]

SuccessorRecordFirst(stage, requires_action) ==
    CASE stage = "analyze"  -> "forecast"
      [] stage = "forecast" -> "predict"
      [] stage = "predict"  -> IF requires_action THEN "plan" ELSE "return"
      [] stage = "plan"     -> "actuate"
      [] stage = "actuate"  -> "record"
      [] stage = "record"   -> "notify"
      [] stage = "notify"   -> "return"
      [] stage = "return"   -> "done"

\* the statement order of process_overflow_scenario: steps 1 to 3 always,
\* steps 4 to 7 under "if sensor_analysis['requires_action']", then the return
Successor(stage, requires_action) ==
    CASE stage = "analyze"  -> "forecast"
      [] stage = "forecast" -> "predict"
      [] stage = "predict"  -> IF requires_action THEN "plan" ELSE "return"
      [] stage = "plan"     -> "actuate"
      [] stage = "actuate"  -> "notify"
      [] stage = "notify"   -> "record"
      [] stage = "record"   -> "return"
      [] stage = "return"   -> "done"

Goto(r, stage) ==
    pc' = [pc EXCEPT ![r] = Successor(stage, sensor_analysis[r].requires_action)]

Raise(r) == pc' = [pc EXCEPT ![r] = "raised"]

Enter(r, stage) == trace' = [trace EXCEPT ![r] = Append(@, stage)]

EmptyTables == [sensor_readings |-> << >>, valve_actions |-> << >>, alerts |-> << >>]

\* how a call ended: "success" or "data" returned, an {"error": ...} value
\* returned, or an exception raised
McpReply(call, status) == [call |-> call, status |-> status]

NoCall == McpReply("", "none")

\* no call made on the server
ServerIdle ==
    /\ db_tables = EmptyTables
    /\ db_before = EmptyTables
    /\ mcp_reply = NoCall

InitWith(started) ==
    /\ pc = [r \in Runs |-> IF r \in started THEN "analyze" ELSE "idle"]
    /\ sensor_data = [r \in Runs |-> NoReading]
    /\ sensor_analysis = [r \in Runs |-> NoAnalysis]
    /\ weather_data = [r \in Runs |-> NoWeather]
    /\ prediction = [r \in Runs |-> NoPrediction]
    /\ pred_reply = [r \in Runs |-> NoOutcome]
    /\ plan_reply = [r \in Runs |-> NoOutcome]
    /\ actions = [r \in Runs |-> << >>]
    /\ idx = [r \in Runs |-> 0]
    /\ command = [r \in Runs |-> NoCommand]
    /\ result = [r \in Runs |-> NoResult]
    /\ trace = [r \in Runs |-> << >>]
    /\ backend_calls = [r \in Runs |-> 0]
    /\ valve_log = << >>
    /\ notifications = << >>
    /\ database = << >>
    /\ faults = {}
    /\ vision_reply = [r \in Runs |-> NoOutcome]
    /\ vision_analysis = [r \in Runs |-> NoVision]

\* one run, as main() starts it
Init == InitWith({"run1"}) /\ ServerIdle

\* two runs started together
ConcInit == InitWith(Runs) /\ ServerIdle

\* Step 1: analyze_sensor_data (no image: image_path is None)
AnalyzeSensorData(r, readings) ==
    /\ pc[r] = "analyze"
    /\ \E sd \in readings :
        /\ sensor_data' = [sensor_data EXCEPT ![r] = sd]
        /\ sensor_analysis' = [sensor_analysis EXCEPT ![r] = Analysis(sd)]
    /\ Enter(r, "classify")
    /\ pc' = [pc EXCEPT ![r] = Successor("analyze", FALSE)]
    /\ UNCHANGED << server_vars, vision_vars, weather_data, prediction, pred_reply, plan_reply, actions, idx, command,
                    result, backend_calls, valve_log, notifications, database,
                    faults >>

\* Step 1 with an image: analyze_sensor_data calls process_camera_feed (one
\* request, its exception propagates) and keeps the parsed assessment
AnalyzeSensorDataWithImage(r, readings, outcomes) ==
    /\ pc[r] = "analyze"
    /\ Enter(r, "classify")
    /\ backend_calls' = [backend_calls EXCEPT ![r] = @ + 1]
    /\ \E sd \in readings, o \in outcomes :
        /\ sensor_data' = [sensor_data EXCEPT ![r] = sd]
        /\ vision_reply' = [vision_reply EXCEPT ![r] = o]
        /\ IF ~o.ok
           THEN Raise(r) /\ UNCHANGED << sensor_analysis, vision_analysis >>
           ELSE /\ vision_analysis' = [vision_analysis EXCEPT
                                        ![r] = ParseVisionAnalysis(o.content)]
                /\ sensor_analysis' = [sensor_analysis EXCEPT ![r] = Analysis(sd)]
                /\ pc' = [pc EXCEPT ![r] = Successor("analyze", FALSE)]
    /\ UNCHANGED << server_vars, weather_data, prediction, pred_reply, plan_reply,
                    actions, idx, command, result, valve_log, notifications,
                    database, faults >>

\* Step 2: get_weather_forecast, whatever the alert level
GetWeatherForecast(r) ==
    /\ pc[r] = "forecast"
    /\ weather_data' = [weather_data EXCEPT ![r] = Forecast]
    /\ Enter(r, "forecast")
    /\ Goto(r, "forecast")
    /\ UNCHANGED << server_vars, vision_vars, sensor_data, sensor_analysis, prediction, pred_reply, plan_reply, actions,
                    idx, command, result, backend_calls, valve_log, notifications,
                    database, faults >>

\* Step 3: predict_overflow (one request, its exception propagates) and the
\* report of the 6h and 12h risks
PredictOverflow(r, outcomes) ==
    /\ pc[r] = "predict"
    /\ Enter(r, "predict")
    /\ backend_calls' = [backend_calls EXCEPT ![r] = @ + 1]
    /\ \E o \in outcomes :
        /\ pred_reply' = [pred_reply EXCEPT ![r] = o]
        /\ IF ~o.ok
           THEN Raise(r) /\ UNCHANGED prediction
           ELSE LET p == ParsePrediction(o.content)
                IN  /\ prediction' = [prediction EXCEPT ![r] = p]
                    /\ IF PredictionReportRaises(p)
                       THEN Raise(r) ELSE Goto(r, "predict")
    /\ UNCHANGED << server_vars, vision_vars, sensor_data, sensor_analysis, weather_data, plan_reply, actions,
                    idx, command, result, valve_log, notifications, database,
                    faults >>

\* Step 4: calculate_redirection (one request, its exception propagates)
CalculateRedirection(r, outcomes) ==
    /\ pc[r] = "plan"
    /\ Enter(r, "plan")
    /\ backend_calls' = [backend_calls EXCEPT ![r] = @ + 1]
    /\ \E o \in outcomes :
        /\ plan_reply' = [plan_reply EXCEPT ![r] = o]
        /\ IF ~o.ok
           THEN Raise(r) /\ UNCHANGED actions
           ELSE /\ actions' = [actions EXCEPT ![r] = ParseActions(o.content)]
                /\ Goto(r, "plan")
    /\ UNCHANGED << server_vars, vision_vars, sensor_data, sensor_analysis, weather_data, prediction, pred_reply, idx,
                    command, result, valve_log, notifications, database,
                    faults >>

\* Step 5 begins: "for action in actions"
BeginValveControls(r) ==
    /\ pc[r] = "actuate"
    /\ idx' = [idx EXCEPT ![r] = 1]
    /\ Enter(r, "actuate")
    /\ pc' = [pc EXCEPT ![r] = "loop"]
    /\ UNCHANGED << server_vars, vision_vars, sensor_data, sensor_analysis, weather_data, prediction, pred_reply,
                    plan_reply, actions, command, result, backend_calls, valve_log,
                    notifications, database, faults >>

\* control_valve, first half: the command is built from the arguments
ControlValveBuild(r) ==
    /\ pc[r] = "loop"
    /\ idx[r] <= Len(actions[r])
    /\ LET a == actions[r][idx[r]]
       IN  command' = [command EXCEPT
                         ![CmdSlot(r)] = Command(a.valve_id, a.action, a.percentage)]
    /\ pc' = [pc EXCEPT ![r] = "emit"]
    /\ UNCHANGED << server_vars, vision_vars, sensor_data, sensor_analysis, weather_data, prediction, pred_reply,
                    plan_reply, actions, idx, result, trace, backend_calls,
                    valve_log, notifications, database, faults >>

\* control_valve, second half: the command goes out and success is returned
ControlValveEmit(r) ==
    /\ pc[r] = "emit"
    /\ LET c == command[CmdSlot(r)]
       IN  valve_log' = Append(valve_log,
                [ valve_id |-> c.valve_id, action |-> c.action,
                  percentage |-> c.percentage, by |-> r, n |-> idx[r] ])
    /\ idx' = [idx EXCEPT ![r] = @ + 1]
    /\ pc' = [pc EXCEPT ![r] = "loop"]
    /\ UNCHANGED << server_vars, vision_vars, sensor_data, sensor_analysis, weather_data, prediction, pred_reply,
                    plan_reply, actions, command, result, trace, backend_calls,
                    notifications, database, faults >>

\* Step 5 ends: the loop is exhausted
EndValveControls(r) ==
    /\ pc[r] = "loop"
    /\ idx[r] > Len(actions[r])
    /\ Goto(r, "actuate")
    /\ UNCHANGED << server_vars, vision_vars, sensor_data, sensor_analysis, weather_data, prediction, pred_reply,
                    plan_reply, actions, idx, command, result, trace,
                    backend_calls, valve_log, notifications, database, faults >>

\* Step 6: generate_alert_message and send_notifications
SendNotifications(r) ==
    /\ pc[r] = "notify"
    /\ notifications' = Append(notifications,
            [ water_level |-> sensor_analysis[r].water_level,
              recipients |-> {"water_dept", "field_ops"}, by |-> r ])
    /\ Enter(r, "notify")
    /\ Goto(r, "notify")
    /\ UNCHANGED << server_vars, vision_vars, sensor_data, sensor_analysis, weather_data, prediction, pred_reply,
                    plan_reply, actions, idx, command, result, backend_calls,
                    valve_log, database, faults >>

\* Step 7: update_database
UpdateDatabase(r) ==
    /\ pc[r] = "record"
    /\ database' = Append(database,
            [ actions_taken |-> actions[r],
              alert_level |-> sensor_analysis[r].alert_level, by |-> r ])
    /\ Enter(r, "record")
    /\ Goto(r, "record")
    /\ UNCHANGED << server_vars, vision_vars, sensor_data, sensor_analysis, weather_data, prediction, pred_reply,
                    plan_reply, actions, idx, command, result, backend_calls,
                    valve_log, notifications, faults >>

\* the return statement
Return(r) ==
    /\ pc[r] = "return"
    /\ result' = [result EXCEPT ![r] =
            [ returned |-> TRUE,
              sensor_analysis |-> sensor_analysis[r],
              prediction |-> prediction[r],
              actions_taken |-> IF sensor_analysis[r].requires_action
                                THEN actions[r] ELSE << >> ]]
    /\ Enter(r, "done")
    /\ Goto(r, "return")
    /\ UNCHANGED << server_vars, vision_vars, sensor_data, sensor_analysis, weather_data, prediction, pred_reply,
                    plan_reply, actions, idx, command, backend_calls, valve_log,
                    notifications, database, faults >>

\* control_valve raises while sending the command (its I/O fails): no "try"
\* surrounds the call in the loop, so the exception ends the run there
ControlValveRaises(r) ==
    /\ pc[r] = "emit"
    /\ faults' = faults \cup {[by |-> r, at |-> "control_valve", n |-> idx[r]]}
    /\ Raise(r)
    /\ UNCHANGED << server_vars, vision_vars, sensor_data, sensor_analysis, weather_data, prediction,
                    pred_reply, plan_reply, actions, idx, command, result, trace,
                    backend_calls, valve_log, notifications, database >>

\* send_notifications raises while sending the alert: the exception ends the
\* run before step 7
SendNotificationsRaises(r) ==
    /\ pc[r] = "notify"
    /\ faults' = faults \cup {[by |-> r, at |-> "send_notifications", n |-> 0]}
    /\ Enter(r, "notify")
    /\ Raise(r)
    /\ UNCHANGED << server_vars, vision_vars, sensor_data, sensor_analysis, weather_data, prediction,
                    pred_reply, plan_reply, actions, idx, command, result,
                    backend_calls, valve_log, notifications, database >>

\* get_weather_forecast raises (the forecast provider fails): the call at
\* step 2 stands outside any "try", so the exception ends the run there
GetWeatherForecastRaises(r) ==
    /\ pc[r] = "forecast"
    /\ faults' = faults \cup {[by |-> r, at |-> "get_weather_forecast", n |-> 0]}
    /\ Enter(r, "forecast")
    /\ Raise(r)
    /\ UNCHANGED << server_vars, vision_vars, sensor_data, sensor_analysis,
                    weather_data, prediction, pred_reply, plan_reply, actions, idx,
                    command, result, backend_calls, valve_log, notifications,
                    database >>

\* a chat-completion request the backend never answers: create() is called
\* with no timeout and awaited by nothing, so the run stays inside the call
BackendNeverReplies(r) ==
    /\ pc[r] \in {"predict", "plan"}
    /\ Enter(r, pc[r])
    /\ backend_calls' = [backend_calls EXCEPT ![r] = @ + 1]
    /\ pc' = [pc EXCEPT ![r] = "blocked"]
    /\ UNCHANGED << server_vars, vision_vars, sensor_data, sensor_analysis,
                    weather_data, prediction, pred_reply, plan_reply, actions, idx,
                    command, result, valve_log, notifications, database, faults >>

Step(r, readings, predictions, plans) ==
    \/ AnalyzeSensorData(r, readings)
    \/ GetWeatherForecast(r)
    \/ PredictOverflow(r, predictions)
    \/ CalculateRedirection(r, plans)
    \/ BeginValveControls(r)
    \/ ControlValveBuild(r)
    \/ ControlValveEmit(r)
    \/ EndValveControls(r)
    \/ SendNotifications(r)
    \/ UpdateDatabase(r)
    \/ Return(r)

Next == \E r \in Runs : Step(r, Readings, PredictionOutcomes, PlanningOutcomes)

Spec == Init /\ [][Next]_vars

\* the run of main() with collaborators whose calls may raise
FaultNext ==
    \/ Next
    \/ \E r \in Runs : ControlValveRaises(r)
    \/ \E r \in Runs : SendNotificationsRaises(r)
    \/ \E r \in Runs : GetWeatherForecastRaises(r)

FaultSpec == Init /\ [][FaultNext]_vars

\* the run of main() against a backend that may leave a request unanswered
HangNext ==
    \/ Next
    \/ \E r \in Runs : BackendNeverReplies(r)

\* every statement that can run does run
HangFairSpec == Init /\ [][HangNext]_vars /\ WF_vars(HangNext)

\* the run of main() on readings that carry a camera image
VisionNext ==
    \/ \E r \in Runs : AnalyzeSensorDataWithImage(r, VisionReadings, VisionOutcomes)
    \/ \E r \in Runs : Step(r, VisionReadings, PredictionOutcomes, PlanningOutcomes)

VisionSpec == Init /\ [][VisionNext]_vars

ConcStep(r) == Step(r, ConcReadings, ConcPredictionOutcomes, ConcPlanningOutcomes)

ConcNext == \E r \in Runs : ConcStep(r)

ConcSpec == ConcInit /\ [][ConcNext]_vars

\* the event loop runs every task that is ready
ConcFairSpec == ConcSpec /\ \A r \in Runs : WF_vars(ConcStep(r))

\* ------------------------------------------------------- the MCP server

TableNames == {"sensor_readings", "valve_actions", "alerts"}

\* a row of valve_actions; id is the AUTOINCREMENT key
ValveRow(id, valve_id, action, percentage) ==
    [ id |-> id, valve_id |-> valve_id, action |-> action, percentage |-> percentage,
      destination |-> "auto", reason |-> "Overflow prevention" ]

\* a row of sensor_readings
SensorRow(id, sensor_id, water_level, alert_level) ==
    [ id |-> id, sensor_id |-> sensor_id, water_level |-> water_level,
      alert_level |-> alert_level ]

\* a row of alerts
AlertRow(id, sensor_id, alert_level) ==
    [ id |-> id, sensor_id |-> sensor_id, alert_level |-> alert_level,
      resolved |-> FALSE ]

\* setup_database creates the tables only "IF NOT EXISTS": the rows of an
\* earlier session are still there
PriorTables ==
    { EmptyTables,
      [ sensor_readings |-> << SensorRow(1, "S0", Pct(30), NORMAL) >>,
        valve_actions |-> << ValveRow(1, "V0", "close", 0) >>,
        alerts |-> << AlertRow(1, "S0", WARNING) >> ] }

ReplaceLatestRow(table, row) ==
    IF table = << >> THEN << row >> ELSE [table EXCEPT ![Len(table)] = row]

\* INSERT INTO table ... VALUES (...); commit
InsertRow(table, row) == Append(table, row)

\* the arguments of a tool call: the keys present and the values that vary
Arguments(has, action, percentage, alert_level) ==
    [has |-> has, action |-> action, percentage |-> percentage, alert_level |-> alert_level]

SensorKeys == {"sensor_id", "location", "water_level", "flow_rate"}

ToolArguments ==
    { Arguments({"valve_id", "action", "percentage"}, "partial", 40, ""),
      Arguments({"valve_id", "action"}, "open", 0, ""),
      Arguments({"action"}, "open", 0, ""),
      Arguments(SensorKeys, "", 0, ""),
      Arguments(SensorKeys \cup {"alert_level"}, "", 0, CRITICAL),
      Arguments(SensorKeys \ {"sensor_id"}, "", 0, ""),
      Arguments({"phone_numbers", "message"}, "", 0, ""),
      Arguments({}, "", 0, "") }

ToolNames ==
    { "get_weather_forecast", "control_valve", "record_sensor_reading",
      "send_sms_alert", "get_tank_capacity" }

ResourceUris ==
    { "water://sensors/current", "water://alerts/active", "water://valves/status" }

\* WaterManagementMCPServer.control_valve
control_valve(tables, valve_id, action, percentage) ==
    [tables EXCEPT !.valve_actions =
        InsertRow(@, ValveRow(Len(@) + 1, valve_id, action, percentage))]

\* WaterManagementMCPServer.record_sensor_reading: data.get("alert_level", "normal")
record_sensor_reading(tables, data) ==
    [tables EXCEPT !.sensor_readings =
        InsertRow(@, SensorRow(Len(@) + 1, "S1", Pct(92),
                     IF "alert_level" \in data.has THEN data.alert_level ELSE NORMAL))]

\* the keys a tool subscripts in `arguments`; the others are read with .get
SubscriptedKeys(name) ==
    CASE name = "get_weather_forecast"  -> {"location"}
      [] name = "control_valve"         -> {"valve_id", "action"}
      [] name = "record_sensor_reading" -> SensorKeys
      [] name = "send_sms_alert"        -> {"phone_numbers", "message"}
      [] OTHER                          -> {}

\* call_tool: dispatch on the name; a missing subscripted key raises KeyError
\* before any statement reaches the database
call_tool(name, arguments) ==
    /\ db_before' = db_tables
    /\ IF name \notin ToolNames
       THEN /\ db_tables' = db_tables
            /\ mcp_reply' = McpReply(name, "error")
       ELSE IF ~(SubscriptedKeys(name) \subseteq arguments.has)
       THEN /\ db_tables' = db_tables
            /\ mcp_reply' = McpReply(name, "raised")
       ELSE /\ mcp_reply' = McpReply(name, "success")
            /\ CASE name = "control_valve" ->
                    /\ Len(db_tables.valve_actions) < MaxRows
                    /\ db_tables' = control_valve(db_tables, "V1", arguments.action,
                            IF "percentage" \in arguments.has
                            THEN arguments.percentage ELSE default_percentage)
                 [] name = "record_sensor_reading" ->
                    /\ Len(db_tables.sensor_readings) < MaxRows
                    /\ db_tables' = record_sensor_reading(db_tables, arguments)
                 [] OTHER -> db_tables' = db_tables
    /\ UNCHANGED << vision_vars, pc, sensor_data, sensor_analysis, weather_data,
                    prediction, pred_reply, plan_reply, actions, idx, command,
                    result, trace, backend_calls, valve_log, notifications,
                    database, faults >>

\* read_resource: the three queries are SELECTs, any other URI gives the
\* "Resource not found" error value
read_resource(uri) ==
    /\ db_before' = db_tables
    /\ db_tables' = db_tables
    /\ mcp_reply' = McpReply(uri, IF uri \in ResourceUris THEN "data" ELSE "error")
    /\ UNCHANGED << vision_vars, pc, sensor_data, sensor_analysis, weather_data,
                    prediction, pred_reply, plan_reply, actions, idx, command,
                    result, trace, backend_calls, valve_log, notifications,
                    database, faults >>

ServerNext ==
    \/ \E name \in ToolNames \cup {"unknown_tool"}, arguments \in ToolArguments :
            call_tool(name, arguments)
    \/ \E uri \in ResourceUris \cup {"water://unknown"} : read_resource(uri)

\* the server started on a database file that may hold earlier rows
ServerInit ==
    /\ InitWith({})
    /\ db_tables \in PriorTables
    /\ db_before = db_tables
    /\ mcp_reply = NoCall

ServerSpec == ServerInit /\ [][ServerNext]_vars

\* ------------------------------------------------------- properties

IsPrefix(s, t) == Len(s) <= Len(t) /\ \A k \in DOMAIN s : s[k] = t[k]

Entered(r, stage) == \E k \in DOMAIN trace[r] : trace[r][k] = stage

Analysed(r) == sensor_analysis[r] # NoAnalysis

CommandsOf(r) == { k \in DOMAIN valve_log : valve_log[k].by = r }

\* the order of stages the design gives an actionable run
StageOrder ==
    << "classify", "forecast", "predict", "plan", "actuate", "notify", "record", "done" >>

\* C1: a run whose reading is classified Normal never enters the forecast
\* stage or the prediction stage and never queries the reasoning backend.
C1_NormalSkipsForecastAndPrediction ==
    \A r \in Runs :
        (Analysed(r) /\ sensor_analysis[r].alert_level = NORMAL)
            => /\ ~Entered(r, "forecast")
               /\ ~Entered(r, "predict")
               /\ ~weather_data[r].fetched
               /\ backend_calls[r] = 0

\* C2: for a reading classified Normal the planner is never invoked, no valve
\* command is sent and the returned result has an empty actions_taken list;
\* the planner is invoked only for an alert level above Normal.
C2_NormalNeverPlans ==
    \A r \in Runs :
        /\ (Analysed(r) /\ sensor_analysis[r].alert_level = NORMAL)
              => /\ ~Entered(r, "plan")
                 /\ ~plan_reply[r].asked
                 /\ CommandsOf(r) = {}
                 /\ (result[r].returned => result[r].actions_taken = << >>)
        /\ Entered(r, "plan")
              => sensor_analysis[r].alert_level \in {WARNING, CRITICAL, EMERGENCY}

\* a Normal run has returned, after its prediction stage, with no action
C2_Witness ==
    \E r \in Runs :
        /\ pc[r] = "done"
        /\ sensor_analysis[r].alert_level = NORMAL
        /\ Entered(r, "predict")
        /\ result[r].returned
        /\ result[r].actions_taken = << >>

\* C3: in a run for an actionable reading the stages entered so far are always
\* an initial part of classify, forecast, predict, plan, actuate, notify,
\* record, done: in that order, each at most once, none re-entered; a run that
\* completes has entered all of them.
C3_StagesInOrder ==
    \A r \in Runs :
        (Analysed(r) /\ sensor_analysis[r].alert_level # NORMAL)
            => /\ IsPrefix(trace[r], StageOrder)
               /\ (pc[r] = "done" => trace[r] = StageOrder)

\* an actionable run has completed with at least one valve command issued
C3_Witness ==
    \E r \in Runs :
        /\ pc[r] = "done"
        /\ sensor_analysis[r].alert_level # NORMAL
        /\ trace[r] = StageOrder
        /\ CommandsOf(r) # {}

\* the reply of a planning request cannot be used: the request raised, or the
\* text extracted from the reply is no JSON
Unusable(o) == o.asked /\ (~o.ok \/ ~Loads(Extracted(o.content)).ok)

\* the first destination of the ranked inventory with capacity left
FallbackDestination ==
    LET open == { k \in DOMAIN available_destinations :
                    available_destinations[k].capacity_remaining > 0 }
    IN  available_destinations[CHOOSE k \in open : \A m \in open : k <= m].id

\* C4: when the planning reply is unusable the planner returns exactly one
\* action, open at 100% to the highest-priority destination with capacity
\* left, and a completed Critical or Emergency run never has zero actions.
C4_UnusableReplyGivesFallback ==
    \A r \in Runs :
        /\ Unusable(plan_reply[r])
              => /\ pc[r] # "raised"
                 /\ Len(actions[r]) = 1
                 /\ actions[r][1].action = "open"
                 /\ actions[r][1].percentage = 100
                 /\ actions[r][1].destination = FallbackDestination
        /\ (pc[r] = "done" /\ sensor_analysis[r].alert_level \in {CRITICAL, EMERGENCY})
              => result[r].actions_taken # << >>

PercentageValid(a) ==
    /\ a.percentage \in 0..100
    /\ (a.action = "close" => a.percentage = 0)
    /\ (a.action = "open" => a.percentage = 100)

\* C5: every action the planner returns, and every valve command issued, has
\* a percentage in [0,100], 0 for close and 100 for open.
C5_PercentagesValidated ==
    /\ \A r \in Runs : \A k \in DOMAIN actions[r] : PercentageValid(actions[r][k])
    /\ \A k \in DOMAIN valve_log : PercentageValid(valve_log[k])

\* C6: the planner's output holds at most one action per valve id.
C6_OneActionPerValve ==
    \A r \in Runs : \A i, j \in DOMAIN actions[r] :
        i # j => actions[r][i].valve_id # actions[r][j].valve_id

SameCommand(a, b) ==
    /\ a.valve_id = b.valve_id
    /\ a.action = b.action
    /\ a.percentage = b.percentage

\* C7: once the valve loop of a run is over, an action that its list holds
\* twice (same valve, action, percentage and destination) has been sent to
\* control_valve exactly once.
C7_RepeatedActionSentOnce ==
    \A r \in Runs :
        pc[r] \in {"notify", "record", "return", "done"}
            => \A i, j \in DOMAIN actions[r] :
                 ( /\ i < j
                   /\ SameCommand(actions[r][i], actions[r][j])
                   /\ actions[r][i].destination = actions[r][j].destination )
                    => Cardinality({ k \in CommandsOf(r) :
                                        SameCommand(valve_log[k], actions[r][i]) }) = 1

\* every command observed is, whole, the command of the action its run was
\* executing: no command mixes or replaces parts with another run's
CommandsWhole ==
    \A k \in DOMAIN valve_log :
        LET e == valve_log[k]
        IN  /\ e.n \in DOMAIN actions[e.by]
            /\ SameCommand(e, actions[e.by][e.n])

\* every action of the run's plan has been issued, once
Applied(r) ==
    \A n \in DOMAIN actions[r] :
        Cardinality({ k \in CommandsOf(r) :
                        valve_log[k].n = n /\ SameCommand(valve_log[k], actions[r][n]) }) = 1

\* C8: with two runs under way together, every valve command observed is one
\* run's complete command, and a run that has planned its commands eventually
\* has all of them applied.
C8_CommandsSerialized ==
    /\ []CommandsWhole
    /\ \A r \in Runs : (pc[r] = "actuate") ~> Applied(r)

\* both runs have had a command applied to the same valve
C8_Witness ==
    \E i, j \in DOMAIN valve_log :
        /\ valve_log[i].by = "run1"
        /\ valve_log[j].by = "run2"
        /\ valve_log[i].valve_id = valve_log[j].valve_id
        /\ ~SameCommand(valve_log[i], valve_log[j])
        /\ pc["run1"] = "done"
        /\ pc["run2"] = "done"

\* C9: a reading with water level exactly 95 is classified Critical.
C9_Level95IsCritical ==
    \A r \in Runs :
        (Analysed(r) /\ sensor_data[r].water_level = Pct(critical_threshold))
            => sensor_analysis[r].alert_level = CRITICAL

\* C10: the reading water_level = 92.5, flow_rate = 450 is classified
\* Critical with requires_action true.
C10_ScenarioAIsCritical ==
    \A r \in Runs :
        (Analysed(r) /\ sensor_data[r] = Reading(925, 450))
            => /\ sensor_analysis[r].alert_level = CRITICAL
               /\ sensor_analysis[r].requires_action

\* C11: a reading with water level in [0,85) is classified Normal with
\* requires_action false, a reading at or above 100 is classified Emergency,
\* and requires_action is true exactly when the level is not Normal.
C11_TiersBelow85AndFrom100 ==
    \A r \in Runs :
        Analysed(r) =>
            /\ (sensor_data[r].water_level >= 0
                  /\ sensor_data[r].water_level < Pct(alert_threshold))
                 => /\ sensor_analysis[r].alert_level = NORMAL
                    /\ ~sensor_analysis[r].requires_action
            /\ sensor_data[r].water_level >= Pct(emergency_threshold)
                 => sensor_analysis[r].alert_level = EMERGENCY
            /\ sensor_analysis[r].requires_action
                 <=> sensor_analysis[r].alert_level # NORMAL

\* the reading exactly 100 has been classified Emergency and calls for action
C11_Witness ==
    \E r \in Runs :
        /\ Analysed(r)
        /\ sensor_data[r].water_level = Pct(emergency_threshold)
        /\ sensor_analysis[r].alert_level = EMERGENCY
        /\ sensor_analysis[r].requires_action

\* C12: a reading with water level exactly 85 is classified Warning with
\* requires_action true.
C12_Level85IsWarning ==
    \A r \in Runs :
        (Analysed(r) /\ sensor_data[r].water_level = Pct(alert_threshold))
            => /\ sensor_analysis[r].alert_level = WARNING
               /\ sensor_analysis[r].requires_action

\* a reply was received and the text extracted from it is no JSON
ParseFails(o) == o.asked /\ o.ok /\ ~Loads(Extracted(o.content)).ok

\* a reply was received and it parses to JSON
Parses(o) == o.asked /\ o.ok /\ Loads(Extracted(o.content)).ok

\* C13: whatever the backend replies to the prediction request, the result of
\* predict_overflow is a dictionary holding overflow_probability_6h and the
\* 12h and 24h probabilities.
C13_PredictionHasProbabilities ==
    \A r \in Runs :
        (pred_reply[r].asked /\ pred_reply[r].ok)
            => /\ prediction[r].t = "dict"
               /\ ProbabilityKeys \subseteq prediction[r].keys

\* the probability the design gives a degraded estimate, per alert level
DefaultRisk(alert_level) ==
    CASE alert_level \in {CRITICAL, EMERGENCY} -> "1.0"
      [] alert_level = WARNING -> "0.5"
      [] OTHER -> "0.0"

\* the reply to the prediction request is no JSON, or JSON that is not an
\* object with the three probability fields
PredictionInvalid(o) ==
    \/ ParseFails(o)
    \/ /\ Parses(o)
       /\ LET v == Loads(Extracted(o.content)).val
          IN  v.t # "dict" \/ ~(ProbabilityKeys \subseteq v.keys)

\* C14: when the reply to the prediction request cannot be parsed or
\* validated, the estimate returned holds the default of the current alert
\* level under each of the three probabilities and a true degraded flag.
C14_InvalidPredictionIsDegraded ==
    \A r \in Runs :
        PredictionInvalid(pred_reply[r])
            => /\ \A k \in ProbabilityKeys :
                    ValueUnder(prediction[r], k)
                        = DefaultRisk(sensor_analysis[r].alert_level)
               /\ ValueUnder(prediction[r], "degraded") = "true"

\* the requests a run has to have made so far if every reply that did not
\* parse was followed by exactly one more request
CallsWithRetry(r) ==
    (IF pred_reply[r].asked THEN 1 ELSE 0)
    + (IF ParseFails(pred_reply[r]) THEN 1 ELSE 0)
    + (IF plan_reply[r].asked THEN 1 ELSE 0)
    + (IF ParseFails(plan_reply[r]) THEN 1 ELSE 0)

\* C15: when the first reply to a prediction or planning request cannot be
\* parsed, the backend is queried exactly one more time for that request.
C15_UnparsableReplyRetriedOnce ==
    \A r \in Runs :
        (ParseFails(pred_reply[r]) \/ ParseFails(plan_reply[r]))
            => backend_calls[r] = CallsWithRetry(r)

\* C16: no reply text makes the run raise: a run that has received a reply to
\* each request it made has not raised.
C16_RepliesNeverRaise ==
    \A r \in Runs :
        ( /\ pred_reply[r].asked /\ pred_reply[r].ok
          /\ plan_reply[r].asked => plan_reply[r].ok )
            => pc[r] # "raised"

NotificationsOf(r) == { k \in DOMAIN notifications : notifications[k].by = r }

RecordsOf(r) == { k \in DOMAIN database : database[k].by = r }

\* the valve loop of the run is over, with one command issued per action
LoopFinished(r) ==
    /\ Entered(r, "actuate")
    /\ idx[r] > Len(actions[r])
    /\ Cardinality(CommandsOf(r)) = Len(actions[r])

IssuedFor(r, n) == \E k \in CommandsOf(r) : valve_log[k].n = n

\* C18: when control_valve fails on one action of a plan, the run is not
\* failed, and once it is done the command of every other action has been
\* issued and the run has notified and recorded.
C18_ValveFailureIsPerValve ==
    \A f \in faults :
        f.at = "control_valve"
            => /\ pc[f.by] # "raised"
               /\ pc[f.by] = "done"
                    => /\ \A n \in DOMAIN actions[f.by] \ {f.n} : IssuedFor(f.by, n)
                       /\ NotificationsOf(f.by) # {}
                       /\ RecordsOf(f.by) # {}

\* C19: a run whose reading has a water level outside [0,100] does not
\* complete, issues no valve command and sends no notification.
C19_OutOfRangeReadingFails ==
    \A r \in Runs :
        ( /\ Analysed(r)
          /\ \/ sensor_data[r].water_level < 0
             \/ sensor_data[r].water_level > Pct(100) )
            => /\ pc[r] # "done"
               /\ ~result[r].returned
               /\ CommandsOf(r) = {}
               /\ NotificationsOf(r) = {}

\* C20: when send_notifications fails in a run for an actionable alert, the
\* run is not failed, and once it is done it has written its database record
\* and returned its result.
C20_NotificationFailureTolerated ==
    \A f \in faults :
        f.at = "send_notifications"
            => /\ pc[f.by] # "raised"
               /\ pc[f.by] = "done"
                    => (RecordsOf(f.by) # {} /\ result[f.by].returned)

\* C21: when the forecast collaborator fails, the run is handed a forecast of
\* zero rainfall and goes on through prediction, planning and actuation
\* instead of failing.
C21_ForecastFailureGivesStaleForecast ==
    \A r \in Runs :
        [by |-> r, at |-> "get_weather_forecast", n |-> 0] \in faults =>
            /\ pc[r] # "raised"
            /\ weather_data[r].fetched
            /\ \A k \in DOMAIN weather_data[r].rainfall_forecast_mm :
                    weather_data[r].rainfall_forecast_mm[k] = 0

C23_DestinationsKnown ==
    /\ \A r \in Runs : \A k \in DOMAIN actions[r] :
            actions[r][k].destination \in DestinationIds
    /\ \A k \in DOMAIN valve_log :
            actions[valve_log[k].by][valve_log[k].n].destination \in DestinationIds

\* C24: the planner's output is sorted by ascending priority number, and the
\* valve commands of a run go out in that order.
C24_SortedByPriority ==
    /\ \A r \in Runs : \A i, j \in DOMAIN actions[r] :
            i < j => actions[r][i].priority <= actions[r][j].priority
    /\ \A k, m \in DOMAIN valve_log :
            (k < m /\ valve_log[k].by = valve_log[m].by) =>
                actions[valve_log[k].by][valve_log[k].n].priority
                    <= actions[valve_log[m].by][valve_log[m].n].priority

\* the text a value returned by a parser carries: the "raw_analysis" of the
\* vision dictionary, the "raw" of the prediction dictionary; the list of
\* actions has no place for text
RawOfList(acts) == << >>

\* a value that stands for a failed parse: it carries the reply as received
\* and none of the assessment's fields
FailureValue(keys, raw, o) == raw = o.content /\ keys \cap VisionKeys = {}

\* C25: whenever a reply to the vision, prediction or planning request cannot
\* be parsed, the value returned to the caller is a failure value carrying the
\* raw reply text and no fabricated water level, overflow flag or urgency.
C25_UnparsableReplyGivesFailureValue ==
    \A r \in Runs :
        /\ (ParseFails(vision_reply[r]) /\ vision_analysis[r] # NoVision) =>
                FailureValue(vision_analysis[r].keys, vision_analysis[r].raw,
                             vision_reply[r])
        /\ (ParseFails(pred_reply[r]) /\ prediction[r] # NoPrediction) =>
                FailureValue(prediction[r].keys, prediction[r].raw, pred_reply[r])
        /\ (ParseFails(plan_reply[r]) /\ pc[r] # "plan") =>
                FailureValue({}, RawOfList(actions[r]), plan_reply[r])

\* every stored row is still where it was before the latest call
AppendOnly == \A t \in TableNames : IsPrefix(db_before[t], db_tables[t])

\* the latest call added one row to table t and touched no other table
AppendedOne(t) ==
    /\ Len(db_tables[t]) = Len(db_before[t]) + 1
    /\ \A u \in TableNames \ {t} : db_tables[u] = db_before[u]

\* the latest call named no tool and no resource of the server
UnknownCall == mcp_reply # NoCall /\ mcp_reply.call \notin ToolNames \cup ResourceUris

PositionOf(k) ==
    Cardinality({ m \in CommandsOf(valve_log[k].by) : m <= k })

\* C27: in every completed run for an actionable reading, the actions_taken of
\* the returned result, the actions_taken of the database record and the valve
\* commands issued are the same actions in the same order: one command per
\* action, none added, none left out.
C27_ResultRecordAndCommandsAgree ==
    \A r \in Runs :
        (pc[r] = "done" /\ sensor_analysis[r].requires_action) =>
            LET taken == result[r].actions_taken
            IN  /\ Cardinality(RecordsOf(r)) = 1
                /\ \A k \in RecordsOf(r) : database[k].actions_taken = taken
                /\ Cardinality(CommandsOf(r)) = Len(taken)
                /\ \A k \in CommandsOf(r) :
                        /\ valve_log[k].valve_id = taken[PositionOf(k)].valve_id
                        /\ valve_log[k].action = taken[PositionOf(k)].action
                        /\ valve_log[k].percentage = taken[PositionOf(k)].percentage

\* a completed run that issued two different commands
C27_Witness ==
    \E r \in Runs :
        /\ pc[r] = "done"
        /\ sensor_analysis[r].requires_action
        /\ Len(result[r].actions_taken) = 2
        /\ result[r].actions_taken[1] # result[r].actions_taken[2]
        /\ Cardinality(CommandsOf(r)) = 2

\* the entries of the array a planning reply parses to (none when it parses
\* to no array)
EntriesOf(o) ==
    LET loaded == Loads(Extracted(o.content))
    IN  IF loaded.ok /\ (loaded.val.t = "list"
                          \/ (loaded.val.t = "dict" /\ "actions" \in loaded.val.keys))
        THEN loaded.val.items ELSE << >>

\* the entry is no object or lacks one of the five keys that are subscripted
Lacks(a) ==
    \/ a.t # "dict"
    \/ \E key \in {"valve_id", "action", "percentage", "destination", "reason"} :
            key \notin a.has

\* action b is entry a field for field, a missing priority read as 5
BuiltFrom(b, a) ==
    /\ b.valve_id = a.valve_id /\ b.action = a.action
    /\ b.percentage = a.percentage /\ b.destination = a.destination
    /\ b.reason = a.reason
    /\ b.priority = (IF "priority" \in a.has THEN a.priority ELSE 5)

\* C28: _parse_actions returns one action per entry of the reply, in reply
\* order, or the empty list; an entry lacking valve_id, action, percentage,
\* destination or reason drops the whole plan, so no valve command is issued
\* for the well-formed entries either; a missing priority alone reads as 5.
C28_PlanParsedWhollyOrDropped ==
    \A r \in Runs :
        (plan_reply[r].asked /\ plan_reply[r].ok) =>
            LET entries == EntriesOf(plan_reply[r])
            IN  /\ \/ actions[r] = << >>
                   \/ /\ Len(actions[r]) = Len(entries)
                      /\ \A k \in DOMAIN entries : BuiltFrom(actions[r][k], entries[k])
                /\ (\E k \in DOMAIN entries : Lacks(entries[k])) =>
                        actions[r] = << >> /\ CommandsOf(r) = {}
                /\ (\A k \in DOMAIN entries : ~Lacks(entries[k])) =>
                        Len(actions[r]) = Len(entries)

\* a completed run whose plan had a well-formed entry before one without a
\* reason: nothing was planned and no valve was commanded
C28_Witness ==
    \E r \in Runs :
        /\ pc[r] = "done"
        /\ plan_reply[r] = Reply(Bare(Json("list", {}, << OpenV1, OpenV1NoReason >>)))
        /\ actions[r] = << >>
        /\ CommandsOf(r) = {}

====
